---- MODULE Spec2Model ----
(***************************************************************************)
(* A model of pnml_parser.py: the PetriNet container, parse_pnml walking   *)
(* an element tree, check_consistency, summary and the command line entry. *)
(*                                                                         *)
(* Representation.                                                         *)
(*  - A Python str that the code inspects (tags, element text) is the      *)
(*    sequence of its characters' code points; identifiers that the code   *)
(*    only stores and compares (attribute values) are TLA+ strings.        *)
(*  - An Optional value is a sequence of length 0 (None) or 1.             *)
(*  - An element tree is the sequence of its elements in document order    *)
(*    (the order of Element.iter()), each with its depth; the subtree of   *)
(*    element i is i followed by the run of deeper elements after it.      *)
(*  - attrib is a set of <<key, value>> pairs.                             *)
(*  - A dict is the sequence of its entries in insertion order.            *)
(***************************************************************************)
EXTENDS Integers, Sequences, FiniteSets

\* ------------------------------------------------------------- bounds
MaxDecls == 3
MaxKids == 2

\* ------------------------------------------------------------- Optional
None == <<>>
Some(x) == <<x>>
IsNone(o) == o = <<>>
Get(o) == o[1]

\* ------------------------------------------------------------- str
\* A character is its Unicode code point; the tables below are those of the
\* Unicode database the interpreter ships (14.0.0).

\* str.strip(): the characters for which str.isspace() holds
Whitespace ==
    {9, 10, 11, 12, 13, 28, 29, 30, 31, 32, 133, 160, 5760, 8232, 8233, 8239, 8287, 12288} \cup (8192..8202)

\* int(): the first character (value 0) of every run of ten decimal digits
DigitZeros ==
    {48, 1632, 1776, 1984, 2406, 2534, 2662, 2790, 2918, 3046, 3174, 3302, 3430, 3558, 3664,
     3792, 3872, 4160, 4240, 6112, 6160, 6470, 6608, 6784, 6800, 6992, 7088, 7232, 7248, 42528,
     43216, 43264, 43472, 43504, 43600, 44016, 65296, 66720, 68912, 69734, 69872, 69942, 70096,
     70384, 70736, 70864, 71248, 71360, 71472, 71904, 72016, 72784, 73040, 73120, 92768, 92864,
     93008, 120782, 120792, 120802, 120812, 120822, 123200, 123632, 125264, 130032}

Digits == UNION {z..(z + 9) : z \in DigitZeros}

DigitVal(c) == c - (CHOOSE z \in DigitZeros : z <= c /\ c <= z + 9)

\* str.lower(): the characters above ASCII with a one-character lowercase form,
\* as <<first, last, step, offset>>: every step-th character from first to
\* last maps to the character offset code points away
LowerTable ==
    {<<192, 214, 1, 32>>, <<216, 222, 1, 32>>, <<256, 302, 2, 1>>, <<306, 310, 2, 1>>, <<313,
     327, 2, 1>>, <<330, 374, 2, 1>>, <<376, 376, 1, -121>>, <<377, 381, 2, 1>>, <<385, 385, 1,
     210>>, <<386, 388, 2, 1>>, <<390, 390, 1, 206>>, <<391, 391, 1, 1>>, <<393, 394, 1, 205>>,
     <<395, 395, 1, 1>>, <<398, 398, 1, 79>>, <<399, 399, 1, 202>>, <<400, 400, 1, 203>>, <<401,
     401, 1, 1>>, <<403, 403, 1, 205>>, <<404, 404, 1, 207>>, <<406, 406, 1, 211>>, <<407, 407,
     1, 209>>, <<408, 408, 1, 1>>, <<412, 412, 1, 211>>, <<413, 413, 1, 213>>, <<415, 415, 1,
     214>>, <<416, 420, 2, 1>>, <<422, 422, 1, 218>>, <<423, 423, 1, 1>>, <<425, 425, 1, 218>>,
     <<428, 428, 1, 1>>, <<430, 430, 1, 218>>, <<431, 431, 1, 1>>, <<433, 434, 1, 217>>, <<435,
     437, 2, 1>>, <<439, 439, 1, 219>>, <<440, 440, 1, 1>>, <<444, 444, 1, 1>>, <<452, 452, 1,
     2>>, <<453, 453, 1, 1>>, <<455, 455, 1, 2>>, <<456, 456, 1, 1>>, <<458, 458, 1, 2>>, <<459,
     475, 2, 1>>, <<478, 494, 2, 1>>, <<497, 497, 1, 2>>, <<498, 500, 2, 1>>, <<502, 502, 1,
     -97>>, <<503, 503, 1, -56>>, <<504, 542, 2, 1>>, <<544, 544, 1, -130>>, <<546, 562, 2, 1>>,
     <<570, 570, 1, 10795>>, <<571, 571, 1, 1>>, <<573, 573, 1, -163>>, <<574, 574, 1, 10792>>,
     <<577, 577, 1, 1>>, <<579, 579, 1, -195>>, <<580, 580, 1, 69>>, <<581, 581, 1, 71>>, <<582,
     590, 2, 1>>, <<880, 882, 2, 1>>, <<886, 886, 1, 1>>, <<895, 895, 1, 116>>, <<902, 902, 1,
     38>>, <<904, 906, 1, 37>>, <<908, 908, 1, 64>>, <<910, 911, 1, 63>>, <<913, 929, 1, 32>>,
     <<932, 939, 1, 32>>, <<975, 975, 1, 8>>, <<984, 1006, 2, 1>>, <<1012, 1012, 1, -60>>,
     <<1015, 1015, 1, 1>>, <<1017, 1017, 1, -7>>, <<1018, 1018, 1, 1>>, <<1021, 1023, 1, -130>>,
     <<1024, 1039, 1, 80>>, <<1040, 1071, 1, 32>>, <<1120, 1152, 2, 1>>, <<1162, 1214, 2, 1>>,
     <<1216, 1216, 1, 15>>, <<1217, 1229, 2, 1>>, <<1232, 1326, 2, 1>>, <<1329, 1366, 1, 48>>,
     <<4256, 4293, 1, 7264>>, <<4295, 4295, 1, 7264>>, <<4301, 4301, 1, 7264>>, <<5024, 5103, 1,
     38864>>, <<5104, 5109, 1, 8>>, <<7312, 7354, 1, -3008>>, <<7357, 7359, 1, -3008>>, <<7680,
     7828, 2, 1>>, <<7838, 7838, 1, -7615>>, <<7840, 7934, 2, 1>>, <<7944, 7951, 1, -8>>,
     <<7960, 7965, 1, -8>>, <<7976, 7983, 1, -8>>, <<7992, 7999, 1, -8>>, <<8008, 8013, 1, -8>>,
     <<8025, 8031, 2, -8>>, <<8040, 8047, 1, -8>>, <<8072, 8079, 1, -8>>, <<8088, 8095, 1, -8>>,
     <<8104, 8111, 1, -8>>, <<8120, 8121, 1, -8>>, <<8122, 8123, 1, -74>>, <<8124, 8124, 1,
     -9>>, <<8136, 8139, 1, -86>>, <<8140, 8140, 1, -9>>, <<8152, 8153, 1, -8>>, <<8154, 8155,
     1, -100>>, <<8168, 8169, 1, -8>>, <<8170, 8171, 1, -112>>, <<8172, 8172, 1, -7>>, <<8184,
     8185, 1, -128>>, <<8186, 8187, 1, -126>>, <<8188, 8188, 1, -9>>, <<8486, 8486, 1, -7517>>,
     <<8490, 8490, 1, -8383>>, <<8491, 8491, 1, -8262>>, <<8498, 8498, 1, 28>>, <<8544, 8559, 1,
     16>>, <<8579, 8579, 1, 1>>, <<9398, 9423, 1, 26>>, <<11264, 11311, 1, 48>>, <<11360, 11360,
     1, 1>>, <<11362, 11362, 1, -10743>>, <<11363, 11363, 1, -3814>>, <<11364, 11364, 1,
     -10727>>, <<11367, 11371, 2, 1>>, <<11373, 11373, 1, -10780>>, <<11374, 11374, 1, -10749>>,
     <<11375, 11375, 1, -10783>>, <<11376, 11376, 1, -10782>>, <<11378, 11378, 1, 1>>, <<11381,
     11381, 1, 1>>, <<11390, 11391, 1, -10815>>, <<11392, 11490, 2, 1>>, <<11499, 11501, 2, 1>>,
     <<11506, 11506, 1, 1>>, <<42560, 42604, 2, 1>>, <<42624, 42650, 2, 1>>, <<42786, 42798, 2,
     1>>, <<42802, 42862, 2, 1>>, <<42873, 42875, 2, 1>>, <<42877, 42877, 1, -35332>>, <<42878,
     42886, 2, 1>>, <<42891, 42891, 1, 1>>, <<42893, 42893, 1, -42280>>, <<42896, 42898, 2, 1>>,
     <<42902, 42920, 2, 1>>, <<42922, 42922, 1, -42308>>, <<42923, 42923, 1, -42319>>, <<42924,
     42924, 1, -42315>>, <<42925, 42925, 1, -42305>>, <<42926, 42926, 1, -42308>>, <<42928,
     42928, 1, -42258>>, <<42929, 42929, 1, -42282>>, <<42930, 42930, 1, -42261>>, <<42931,
     42931, 1, 928>>, <<42932, 42946, 2, 1>>, <<42948, 42948, 1, -48>>, <<42949, 42949, 1,
     -42307>>, <<42950, 42950, 1, -35384>>, <<42951, 42953, 2, 1>>, <<42960, 42960, 1, 1>>,
     <<42966, 42968, 2, 1>>, <<42997, 42997, 1, 1>>, <<65313, 65338, 1, 32>>, <<66560, 66599, 1,
     40>>, <<66736, 66771, 1, 40>>, <<66928, 66938, 1, 39>>, <<66940, 66954, 1, 39>>, <<66956,
     66962, 1, 39>>, <<66964, 66965, 1, 39>>, <<68736, 68786, 1, 64>>, <<71840, 71871, 1, 32>>,
     <<93760, 93791, 1, 32>>, <<125184, 125217, 1, 34>>}

\* str.lower(): characters that are cased and not case-ignorable, as <<first, last>>
CasedTable ==
    {<<65, 90>>, <<97, 122>>, <<170, 170>>, <<181, 181>>, <<186, 186>>, <<192, 214>>, <<216,
     246>>, <<248, 442>>, <<444, 447>>, <<452, 659>>, <<661, 687>>, <<880, 883>>, <<886, 887>>,
     <<891, 893>>, <<895, 895>>, <<902, 902>>, <<904, 906>>, <<908, 908>>, <<910, 929>>, <<931,
     1013>>, <<1015, 1153>>, <<1162, 1327>>, <<1329, 1366>>, <<1376, 1416>>, <<4256, 4293>>,
     <<4295, 4295>>, <<4301, 4301>>, <<4304, 4346>>, <<4349, 4351>>, <<5024, 5109>>, <<5112,
     5117>>, <<7296, 7304>>, <<7312, 7354>>, <<7357, 7359>>, <<7424, 7467>>, <<7531, 7543>>,
     <<7545, 7578>>, <<7680, 7957>>, <<7960, 7965>>, <<7968, 8005>>, <<8008, 8013>>, <<8016,
     8023>>, <<8025, 8025>>, <<8027, 8027>>, <<8029, 8029>>, <<8031, 8061>>, <<8064, 8116>>,
     <<8118, 8124>>, <<8126, 8126>>, <<8130, 8132>>, <<8134, 8140>>, <<8144, 8147>>, <<8150,
     8155>>, <<8160, 8172>>, <<8178, 8180>>, <<8182, 8188>>, <<8450, 8450>>, <<8455, 8455>>,
     <<8458, 8467>>, <<8469, 8469>>, <<8473, 8477>>, <<8484, 8484>>, <<8486, 8486>>, <<8488,
     8488>>, <<8490, 8493>>, <<8495, 8500>>, <<8505, 8505>>, <<8508, 8511>>, <<8517, 8521>>,
     <<8526, 8526>>, <<8544, 8575>>, <<8579, 8580>>, <<9398, 9449>>, <<11264, 11387>>, <<11390,
     11492>>, <<11499, 11502>>, <<11506, 11507>>, <<11520, 11557>>, <<11559, 11559>>, <<11565,
     11565>>, <<42560, 42605>>, <<42624, 42651>>, <<42786, 42863>>, <<42865, 42887>>, <<42891,
     42894>>, <<42896, 42954>>, <<42960, 42961>>, <<42963, 42963>>, <<42965, 42969>>, <<42997,
     42998>>, <<43002, 43002>>, <<43824, 43866>>, <<43872, 43880>>, <<43888, 43967>>, <<64256,
     64262>>, <<64275, 64279>>, <<65313, 65338>>, <<65345, 65370>>, <<66560, 66639>>, <<66736,
     66771>>, <<66776, 66811>>, <<66928, 66938>>, <<66940, 66954>>, <<66956, 66962>>, <<66964,
     66965>>, <<66967, 66977>>, <<66979, 66993>>, <<66995, 67001>>, <<67003, 67004>>, <<68736,
     68786>>, <<68800, 68850>>, <<71840, 71903>>, <<93760, 93823>>, <<119808, 119892>>,
     <<119894, 119964>>, <<119966, 119967>>, <<119970, 119970>>, <<119973, 119974>>, <<119977,
     119980>>, <<119982, 119993>>, <<119995, 119995>>, <<119997, 120003>>, <<120005, 120069>>,
     <<120071, 120074>>, <<120077, 120084>>, <<120086, 120092>>, <<120094, 120121>>, <<120123,
     120126>>, <<120128, 120132>>, <<120134, 120134>>, <<120138, 120144>>, <<120146, 120485>>,
     <<120488, 120512>>, <<120514, 120538>>, <<120540, 120570>>, <<120572, 120596>>, <<120598,
     120628>>, <<120630, 120654>>, <<120656, 120686>>, <<120688, 120712>>, <<120714, 120744>>,
     <<120746, 120770>>, <<120772, 120779>>, <<122624, 122633>>, <<122635, 122654>>, <<125184,
     125251>>, <<127280, 127305>>, <<127312, 127337>>, <<127344, 127369>>}

\* str.lower(): case-ignorable characters, as <<first, last>>
CaseIgnorableTable ==
    {<<39, 39>>, <<46, 46>>, <<58, 58>>, <<94, 94>>, <<96, 96>>, <<168, 168>>, <<173, 173>>,
     <<175, 175>>, <<180, 180>>, <<183, 184>>, <<688, 879>>, <<884, 885>>, <<890, 890>>, <<900,
     901>>, <<903, 903>>, <<1155, 1161>>, <<1369, 1369>>, <<1375, 1375>>, <<1425, 1469>>,
     <<1471, 1471>>, <<1473, 1474>>, <<1476, 1477>>, <<1479, 1479>>, <<1524, 1524>>, <<1536,
     1541>>, <<1552, 1562>>, <<1564, 1564>>, <<1600, 1600>>, <<1611, 1631>>, <<1648, 1648>>,
     <<1750, 1757>>, <<1759, 1768>>, <<1770, 1773>>, <<1807, 1807>>, <<1809, 1809>>, <<1840,
     1866>>, <<1958, 1968>>, <<2027, 2037>>, <<2042, 2042>>, <<2045, 2045>>, <<2070, 2093>>,
     <<2137, 2139>>, <<2184, 2184>>, <<2192, 2193>>, <<2200, 2207>>, <<2249, 2306>>, <<2362,
     2362>>, <<2364, 2364>>, <<2369, 2376>>, <<2381, 2381>>, <<2385, 2391>>, <<2402, 2403>>,
     <<2417, 2417>>, <<2433, 2433>>, <<2492, 2492>>, <<2497, 2500>>, <<2509, 2509>>, <<2530,
     2531>>, <<2558, 2558>>, <<2561, 2562>>, <<2620, 2620>>, <<2625, 2626>>, <<2631, 2632>>,
     <<2635, 2637>>, <<2641, 2641>>, <<2672, 2673>>, <<2677, 2677>>, <<2689, 2690>>, <<2748,
     2748>>, <<2753, 2757>>, <<2759, 2760>>, <<2765, 2765>>, <<2786, 2787>>, <<2810, 2815>>,
     <<2817, 2817>>, <<2876, 2876>>, <<2879, 2879>>, <<2881, 2884>>, <<2893, 2893>>, <<2901,
     2902>>, <<2914, 2915>>, <<2946, 2946>>, <<3008, 3008>>, <<3021, 3021>>, <<3072, 3072>>,
     <<3076, 3076>>, <<3132, 3132>>, <<3134, 3136>>, <<3142, 3144>>, <<3146, 3149>>, <<3157,
     3158>>, <<3170, 3171>>, <<3201, 3201>>, <<3260, 3260>>, <<3263, 3263>>, <<3270, 3270>>,
     <<3276, 3277>>, <<3298, 3299>>, <<3328, 3329>>, <<3387, 3388>>, <<3393, 3396>>, <<3405,
     3405>>, <<3426, 3427>>, <<3457, 3457>>, <<3530, 3530>>, <<3538, 3540>>, <<3542, 3542>>,
     <<3633, 3633>>, <<3636, 3642>>, <<3654, 3662>>, <<3761, 3761>>, <<3764, 3772>>, <<3782,
     3782>>, <<3784, 3789>>, <<3864, 3865>>, <<3893, 3893>>, <<3895, 3895>>, <<3897, 3897>>,
     <<3953, 3966>>, <<3968, 3972>>, <<3974, 3975>>, <<3981, 3991>>, <<3993, 4028>>, <<4038,
     4038>>, <<4141, 4144>>, <<4146, 4151>>, <<4153, 4154>>, <<4157, 4158>>, <<4184, 4185>>,
     <<4190, 4192>>, <<4209, 4212>>, <<4226, 4226>>, <<4229, 4230>>, <<4237, 4237>>, <<4253,
     4253>>, <<4348, 4348>>, <<4957, 4959>>, <<5906, 5908>>, <<5938, 5939>>, <<5970, 5971>>,
     <<6002, 6003>>, <<6068, 6069>>, <<6071, 6077>>, <<6086, 6086>>, <<6089, 6099>>, <<6103,
     6103>>, <<6109, 6109>>, <<6155, 6159>>, <<6211, 6211>>, <<6277, 6278>>, <<6313, 6313>>,
     <<6432, 6434>>, <<6439, 6440>>, <<6450, 6450>>, <<6457, 6459>>, <<6679, 6680>>, <<6683,
     6683>>, <<6742, 6742>>, <<6744, 6750>>, <<6752, 6752>>, <<6754, 6754>>, <<6757, 6764>>,
     <<6771, 6780>>, <<6783, 6783>>, <<6823, 6823>>, <<6832, 6862>>, <<6912, 6915>>, <<6964,
     6964>>, <<6966, 6970>>, <<6972, 6972>>, <<6978, 6978>>, <<7019, 7027>>, <<7040, 7041>>,
     <<7074, 7077>>, <<7080, 7081>>, <<7083, 7085>>, <<7142, 7142>>, <<7144, 7145>>, <<7149,
     7149>>, <<7151, 7153>>, <<7212, 7219>>, <<7222, 7223>>, <<7288, 7293>>, <<7376, 7378>>,
     <<7380, 7392>>, <<7394, 7400>>, <<7405, 7405>>, <<7412, 7412>>, <<7416, 7417>>, <<7468,
     7530>>, <<7544, 7544>>, <<7579, 7679>>, <<8125, 8125>>, <<8127, 8129>>, <<8141, 8143>>,
     <<8157, 8159>>, <<8173, 8175>>, <<8189, 8190>>, <<8203, 8207>>, <<8216, 8217>>, <<8228,
     8228>>, <<8231, 8231>>, <<8234, 8238>>, <<8288, 8292>>, <<8294, 8303>>, <<8305, 8305>>,
     <<8319, 8319>>, <<8336, 8348>>, <<8400, 8432>>, <<11388, 11389>>, <<11503, 11505>>,
     <<11631, 11631>>, <<11647, 11647>>, <<11744, 11775>>, <<11823, 11823>>, <<12293, 12293>>,
     <<12330, 12333>>, <<12337, 12341>>, <<12347, 12347>>, <<12441, 12446>>, <<12540, 12542>>,
     <<40981, 40981>>, <<42232, 42237>>, <<42508, 42508>>, <<42607, 42610>>, <<42612, 42621>>,
     <<42623, 42623>>, <<42652, 42655>>, <<42736, 42737>>, <<42752, 42785>>, <<42864, 42864>>,
     <<42888, 42890>>, <<42994, 42996>>, <<43000, 43001>>, <<43010, 43010>>, <<43014, 43014>>,
     <<43019, 43019>>, <<43045, 43046>>, <<43052, 43052>>, <<43204, 43205>>, <<43232, 43249>>,
     <<43263, 43263>>, <<43302, 43309>>, <<43335, 43345>>, <<43392, 43394>>, <<43443, 43443>>,
     <<43446, 43449>>, <<43452, 43453>>, <<43471, 43471>>, <<43493, 43494>>, <<43561, 43566>>,
     <<43569, 43570>>, <<43573, 43574>>, <<43587, 43587>>, <<43596, 43596>>, <<43632, 43632>>,
     <<43644, 43644>>, <<43696, 43696>>, <<43698, 43700>>, <<43703, 43704>>, <<43710, 43711>>,
     <<43713, 43713>>, <<43741, 43741>>, <<43756, 43757>>, <<43763, 43764>>, <<43766, 43766>>,
     <<43867, 43871>>, <<43881, 43883>>, <<44005, 44005>>, <<44008, 44008>>, <<44013, 44013>>,
     <<64286, 64286>>, <<64434, 64450>>, <<65024, 65039>>, <<65043, 65043>>, <<65056, 65071>>,
     <<65106, 65106>>, <<65109, 65109>>, <<65279, 65279>>, <<65287, 65287>>, <<65294, 65294>>,
     <<65306, 65306>>, <<65342, 65342>>, <<65344, 65344>>, <<65392, 65392>>, <<65438, 65439>>,
     <<65507, 65507>>, <<65529, 65531>>, <<66045, 66045>>, <<66272, 66272>>, <<66422, 66426>>,
     <<67456, 67461>>, <<67463, 67504>>, <<67506, 67514>>, <<68097, 68099>>, <<68101, 68102>>,
     <<68108, 68111>>, <<68152, 68154>>, <<68159, 68159>>, <<68325, 68326>>, <<68900, 68903>>,
     <<69291, 69292>>, <<69446, 69456>>, <<69506, 69509>>, <<69633, 69633>>, <<69688, 69702>>,
     <<69744, 69744>>, <<69747, 69748>>, <<69759, 69761>>, <<69811, 69814>>, <<69817, 69818>>,
     <<69821, 69821>>, <<69826, 69826>>, <<69837, 69837>>, <<69888, 69890>>, <<69927, 69931>>,
     <<69933, 69940>>, <<70003, 70003>>, <<70016, 70017>>, <<70070, 70078>>, <<70089, 70092>>,
     <<70095, 70095>>, <<70191, 70193>>, <<70196, 70196>>, <<70198, 70199>>, <<70206, 70206>>,
     <<70367, 70367>>, <<70371, 70378>>, <<70400, 70401>>, <<70459, 70460>>, <<70464, 70464>>,
     <<70502, 70508>>, <<70512, 70516>>, <<70712, 70719>>, <<70722, 70724>>, <<70726, 70726>>,
     <<70750, 70750>>, <<70835, 70840>>, <<70842, 70842>>, <<70847, 70848>>, <<70850, 70851>>,
     <<71090, 71093>>, <<71100, 71101>>, <<71103, 71104>>, <<71132, 71133>>, <<71219, 71226>>,
     <<71229, 71229>>, <<71231, 71232>>, <<71339, 71339>>, <<71341, 71341>>, <<71344, 71349>>,
     <<71351, 71351>>, <<71453, 71455>>, <<71458, 71461>>, <<71463, 71467>>, <<71727, 71735>>,
     <<71737, 71738>>, <<71995, 71996>>, <<71998, 71998>>, <<72003, 72003>>, <<72148, 72151>>,
     <<72154, 72155>>, <<72160, 72160>>, <<72193, 72202>>, <<72243, 72248>>, <<72251, 72254>>,
     <<72263, 72263>>, <<72273, 72278>>, <<72281, 72283>>, <<72330, 72342>>, <<72344, 72345>>,
     <<72752, 72758>>, <<72760, 72765>>, <<72767, 72767>>, <<72850, 72871>>, <<72874, 72880>>,
     <<72882, 72883>>, <<72885, 72886>>, <<73009, 73014>>, <<73018, 73018>>, <<73020, 73021>>,
     <<73023, 73029>>, <<73031, 73031>>, <<73104, 73105>>, <<73109, 73109>>, <<73111, 73111>>,
     <<73459, 73460>>, <<78896, 78904>>, <<92912, 92916>>, <<92976, 92982>>, <<92992, 92995>>,
     <<94031, 94031>>, <<94095, 94111>>, <<94176, 94177>>, <<94179, 94180>>, <<110576, 110579>>,
     <<110581, 110587>>, <<110589, 110590>>, <<113821, 113822>>, <<113824, 113827>>, <<118528,
     118573>>, <<118576, 118598>>, <<119143, 119145>>, <<119155, 119170>>, <<119173, 119179>>,
     <<119210, 119213>>, <<119362, 119364>>, <<121344, 121398>>, <<121403, 121452>>, <<121461,
     121461>>, <<121476, 121476>>, <<121499, 121503>>, <<121505, 121519>>, <<122880, 122886>>,
     <<122888, 122904>>, <<122907, 122913>>, <<122915, 122916>>, <<122918, 122922>>, <<123184,
     123197>>, <<123566, 123566>>, <<123628, 123631>>, <<125136, 125142>>, <<125252, 125259>>,
     <<127995, 127999>>, <<917505, 917505>>, <<917536, 917631>>, <<917760, 917999>>}

InRuns(c, table) == \E r \in table : r[1] <= c /\ c <= r[2]

\* the lowercase form of one character that lowers to one character
LowerChar(c) ==
    IF c < 128 THEN (IF 65 <= c /\ c <= 90 THEN c + 32 ELSE c)
    ELSE IF \E r \in LowerTable : r[1] <= c /\ c <= r[2] /\ (c - r[1]) % r[3] = 0
    THEN c + (CHOOSE r \in LowerTable : r[1] <= c /\ c <= r[2] /\ (c - r[1]) % r[3] = 0)[4]
    ELSE c

\* nearest position before / after k that is not case-ignorable (0 / Len + 1 if none)
RECURSIVE SkipBack(_, _)
SkipBack(s, j) == IF j >= 1 /\ InRuns(s[j], CaseIgnorableTable) THEN SkipBack(s, j - 1) ELSE j
RECURSIVE SkipForward(_, _)
SkipForward(s, j) ==
    IF j <= Len(s) /\ InRuns(s[j], CaseIgnorableTable) THEN SkipForward(s, j + 1) ELSE j

\* capital sigma lowers to final sigma after a cased letter and before none
FinalSigma(s, k) ==
    LET b == SkipBack(s, k - 1)
        f == SkipForward(s, k + 1)
    IN /\ b >= 1 /\ InRuns(s[b], CasedTable)
       /\ ~(f <= Len(s) /\ InRuns(s[f], CasedTable))

\* the lowercase form of the character at position k
LowerAt(s, k) ==
    IF s[k] = 304 THEN <<105, 775>>
    ELSE IF s[k] = 931 THEN (IF FinalSigma(s, k) THEN <<962>> ELSE <<963>>)
    ELSE <<LowerChar(s[k])>>

\* str.lower()
RECURSIVE LowerFrom(_, _)
LowerFrom(s, k) == IF k > Len(s) THEN <<>> ELSE LowerAt(s, k) \o LowerFrom(s, k + 1)
Lower(s) == LowerFrom(s, 1)

\* str.strip(): leading and trailing whitespace removed
RECURSIVE LStrip(_)
LStrip(s) == IF s # <<>> /\ Head(s) \in Whitespace THEN LStrip(Tail(s)) ELSE s

RECURSIVE RStrip(_)
RStrip(s) ==
    IF s # <<>> /\ s[Len(s)] \in Whitespace
    THEN RStrip(SubSeq(s, 1, Len(s) - 1))
    ELSE s

Strip(s) == RStrip(LStrip(s))

\* needle in hay
Contains(hay, needle) ==
    \E k \in 0..(Len(hay) - Len(needle)) :
        SubSeq(hay, k + 1, k + Len(needle)) = needle

\* hay.split(sep, 1)[1] when sep occurs in hay
AfterFirst(hay, sep) ==
    LET k == CHOOSE j \in 1..Len(hay) :
                 hay[j] = sep /\ \A m \in 1..(j - 1) : hay[m] # sep
    IN SubSeq(hay, k + 1, Len(hay))

\* int(s), base 10: whitespace around the literal is ignored (the separators
\* 28..31 excepted), then an optional sign, then decimal digits of any script,
\* single underscores allowed between digits
IntWhitespace == Whitespace \ (28..31)

RECURSIVE IntLStrip(_)
IntLStrip(s) == IF s # <<>> /\ Head(s) \in IntWhitespace THEN IntLStrip(Tail(s)) ELSE s
RECURSIVE IntRStrip(_)
IntRStrip(s) ==
    IF s # <<>> /\ s[Len(s)] \in IntWhitespace
    THEN IntRStrip(SubSeq(s, 1, Len(s) - 1))
    ELSE s
IntStrip(s) == IntRStrip(IntLStrip(s))

\* "+" is 43, "-" is 45, "_" is 95
IntBody(s) == IF s # <<>> /\ Head(s) \in {43, 45} THEN Tail(s) ELSE s

\* the two ValueErrors of int()
IntValueError == <<"ValueError", "invalid literal for int()">>
IntLimitError == <<"ValueError", "Exceeds the limit (4300 digits) for integer string conversion">>

\* sys.int_max_str_digits: the interpreter's default limit on the number of
\* digits of a decimal string that int() converts
MaxStrDigits == 4300

\* int() scans the digits and underscores that follow the sign and stops at
\* the first other character: the length of that run
DigitRun(b) ==
    LET stops == {k \in 1..Len(b) : b[k] \notin Digits \cup {95}}
    IN IF stops = {} THEN Len(b)
       ELSE (CHOOSE k \in stops : \A j \in stops : k <= j) - 1

\* an underscore only between two digits
WellFormedRun(p) ==
    /\ p # <<>>
    /\ p[1] # 95
    /\ p[Len(p)] # 95
    /\ \A k \in 1..(Len(p) - 1) : ~(p[k] = 95 /\ p[k + 1] = 95)

DigitCount(p) == Cardinality({k \in 1..Len(p) : p[k] # 95})

\* The ValueError int(s0) raises, or None when it returns a value: the run is
\* checked first, then the digit limit (leading zeros count, underscores do
\* not), then that nothing follows the run.
IntRaises(s0) ==
    LET b == IntBody(IntStrip(s0))
        n == DigitRun(b)
        p == SubSeq(b, 1, n)
    IN IF ~WellFormedRun(p) THEN Some(IntValueError)
       ELSE IF DigitCount(p) > MaxStrDigits THEN Some(IntLimitError)
       ELSE IF n < Len(b) THEN Some(IntValueError)
       ELSE None

IsIntLiteral(s0) == IsNone(IntRaises(s0))

RECURSIVE DigitsValue(_, _)
DigitsValue(b, acc) ==
    IF b = <<>> THEN acc
    ELSE IF Head(b) = 95 THEN DigitsValue(Tail(b), acc)
    ELSE DigitsValue(Tail(b), 10 * acc + DigitVal(Head(b)))

\* the digits from the first non-zero one on: leading zeros and the
\* underscores among them add nothing to the value
Significant(b) ==
    LET nz == {k \in 1..Len(b) : b[k] # 95 /\ DigitVal(b[k]) # 0}
    IN IF nz = {} THEN <<>>
       ELSE SubSeq(b, CHOOSE k \in nz : \A j \in nz : k <= j, Len(b))

IntOf(s0) ==
    LET s == IntStrip(s0)
        v == DigitsValue(Significant(IntBody(s)), 0)
    IN IF s # <<>> /\ Head(s) = 45 THEN 0 - v ELSE v

\* ------------------------------------------------------------- tags
tag_place == <<112, 108, 97, 99, 101>>                      \* "place"
tag_transition == <<116, 114, 97, 110, 115, 105, 116, 105, 111, 110>>
                                                               \* "transition"
tag_arc == <<97, 114, 99>>                                    \* "arc"
tag_name == <<110, 97, 109, 101>>                             \* "name"
tag_text == <<116, 101, 120, 116>>                             \* "text"
tag_initialmarking ==                                          \* "initialmarking"
    <<105, 110, 105, 116, 105, 97, 108, 109, 97, 114, 107, 105, 110, 103>>

\* strip_ns ("}" is 125)
strip_ns(tag) == IF \E k \in 1..Len(tag) : tag[k] = 125 THEN AfterFirst(tag, 125) ELSE tag

\* ------------------------------------------------------------- element tree
HasAttr(e, k) == \E p \in e.attrib : p[1] = k
Attr(e, k) == (CHOOSE p \in e.attrib : p[1] = k)[2]

\* last index of the subtree rooted at i
RECURSIVE SubtreeEnd(_, _, _)
SubtreeEnd(d, i, j) ==
    IF j < Len(d) /\ d[j + 1].depth > d[i].depth THEN SubtreeEnd(d, i, j + 1) ELSE j

\* Element.iter(): the element and its descendants, in document order
IterIdx(d, i) == [k \in 1..(SubtreeEnd(d, i, i) - i + 1) |-> i + k - 1]

\* iteration over an element: its direct children, in document order
RECURSIVE ChildrenFrom(_, _, _, _)
ChildrenFrom(d, i, j, last) ==
    IF j > last THEN <<>>
    ELSE IF d[j].depth = d[i].depth + 1
         THEN <<j>> \o ChildrenFrom(d, i, j + 1, last)
         ELSE ChildrenFrom(d, i, j + 1, last)

ChildIdx(d, i) == ChildrenFrom(d, i, i + 1, SubtreeEnd(d, i, i))

\* ------------------------------------------------------------- exceptions
KeyError(k) == <<"KeyError", k>>
AttributeError == <<"AttributeError", "'NoneType' object has no attribute 'strip'">>
DuplicatePlace(id) == <<"ValueError", "Duplicate place id", id>>
DuplicateTransition(id) == <<"ValueError", "Duplicate transition id", id>>
\* ET.parse on a file that is not well-formed XML, or that cannot be opened
ParseError == <<"ParseError", "not well-formed">>
FileNotFoundError == <<"FileNotFoundError", "No such file or directory">>

\* ------------------------------------------------------------- PetriNet
Place(id, name, initial_marking) ==
    [id |-> id, name |-> name, initial_marking |-> initial_marking]
Transition(id, name) == [id |-> id, name |-> name]
Arc(id, source, target) == [id |-> id, source |-> source, target |-> target]

\* PetriNet.__init__
PetriNet == [places |-> <<>>, transitions |-> <<>>, arcs |-> <<>>]

\* `k in dict`
Keys(dict) == {dict[k].id : k \in 1..Len(dict)}

\* dict[key] = value: an existing key keeps its position, a new key is appended
DictSet(dict, v) ==
    IF v.id \in Keys(dict)
    THEN [k \in 1..Len(dict) |-> IF dict[k].id = v.id THEN v ELSE dict[k]]
    ELSE Append(dict, v)

\* The result of a call that may raise: the exception (or None) and the net after it
Raised(e, n) == [exc |-> Some(e), net |-> n]
Returned(n) == [exc |-> None, net |-> n]

\* add_place without the membership test
add_place_overwrite(n, p) == Returned([n EXCEPT !.places = DictSet(@, p)])

add_place(n, p) ==
    IF p.id \in Keys(n.places)
    THEN Raised(DuplicatePlace(p.id), n)
    ELSE Returned([n EXCEPT !.places = DictSet(@, p)])

add_transition(n, t) ==
    IF t.id \in Keys(n.transitions)
    THEN Raised(DuplicateTransition(t.id), n)
    ELSE Returned([n EXCEPT !.transitions = DictSet(@, t)])

\* add_arc that drops an arc equal to one already held
add_arc_dedup(n, a) ==
    IF \E k \in 1..Len(n.arcs) : n.arcs[k] = a THEN Returned(n)
    ELSE Returned([n EXCEPT !.arcs = Append(@, a)])

\* add_arc that resolves the endpoints when the arc is added
add_arc_checked(n, a) ==
    IF \A e \in {a.source, a.target} : e \in Keys(n.places) \cup Keys(n.transitions)
    THEN Returned([n EXCEPT !.arcs = Append(@, a)])
    ELSE Raised(<<"ValueError", "Unknown endpoint", a.id>>, n)

add_arc(n, a) == Returned([n EXCEPT !.arcs = Append(@, a)])

\* ------------------------------------------------------------- check_consistency
\* endpoint lookup in the place mapping alone
Known_places_only(n, id) == id \in Keys(n.places)

Known(n, id) == id \in Keys(n.places) \/ id \in Keys(n.transitions)

UnknownSource(a) == [kind |-> "unknown source", arc |-> a.id, ref |-> a.source]
UnknownTarget(a) == [kind |-> "unknown target", arc |-> a.id, ref |-> a.target]
MarkingWarning(p) == [place |-> p.id, marking |-> p.initial_marking]

\* for a in self.arcs: ...
RECURSIVE ArcLoop(_, _, _)
ArcLoop(n, k, errors) ==
    IF k > Len(n.arcs) THEN errors
    ELSE LET a == n.arcs[k]
             e1 == IF ~Known(n, a.source) THEN Append(errors, UnknownSource(a)) ELSE errors
             e2 == IF ~Known(n, a.target) THEN Append(e1, UnknownTarget(a)) ELSE e1
         IN ArcLoop(n, k + 1, e2)

\* the place loop warning on every marking other than 0
RECURSIVE PlaceLoop_nonzero(_, _, _)
PlaceLoop_nonzero(n, k, warnings) ==
    IF k > Len(n.places) THEN warnings
    ELSE PlaceLoop_nonzero(n, k + 1,
             IF n.places[k].initial_marking # 0
             THEN Append(warnings, [place |-> n.places[k].id,
                                    marking |-> n.places[k].initial_marking])
             ELSE warnings)

\* for p in self.places.values(): ...
RECURSIVE PlaceLoop(_, _, _)
PlaceLoop(n, k, warnings) ==
    IF k > Len(n.places) THEN warnings
    ELSE LET p == n.places[k]
         IN PlaceLoop(n, k + 1,
                IF p.initial_marking \notin {0, 1}
                THEN Append(warnings, MarkingWarning(p))
                ELSE warnings)

\* The returned pair, and self as the call leaves it (nothing is assigned)
check_consistency(n) ==
    [errors |-> ArcLoop(n, 1, <<>>), warnings |-> PlaceLoop(n, 1, <<>>), self |-> n]

\* ------------------------------------------------------------- parse_pnml
\* The locals of one place/transition iteration
Locals == [exc |-> None, name |-> None, init |-> 0]

\* for t in c.iter(): if strip_ns(t.tag) == "text": name = t.text.strip()
RECURSIVE NameTexts(_, _, _)
NameTexts(d, ts, st) ==
    IF ts = <<>> \/ ~IsNone(st.exc) THEN st
    ELSE LET t == d[Head(ts)]
         IN IF strip_ns(t.tag) = tag_text
            THEN IF IsNone(t.text)
                 THEN [st EXCEPT !.exc = Some(AttributeError)]
                 ELSE NameTexts(d, Tail(ts), [st EXCEPT !.name = Some(Strip(Get(t.text)))])
            ELSE NameTexts(d, Tail(ts), st)

\* for t in c.iter(): if strip_ns(t.tag) == "text": init = int(t.text.strip())
RECURSIVE MarkingTexts(_, _, _)
MarkingTexts(d, ts, st) ==
    IF ts = <<>> \/ ~IsNone(st.exc) THEN st
    ELSE LET t == d[Head(ts)]
         IN IF strip_ns(t.tag) = tag_text
            THEN IF IsNone(t.text)
                 THEN [st EXCEPT !.exc = Some(AttributeError)]
                 ELSE IF ~IsIntLiteral(Strip(Get(t.text)))
                 THEN [st EXCEPT !.exc = IntRaises(Strip(Get(t.text)))]
                 ELSE MarkingTexts(d, Tail(ts), [st EXCEPT !.init = IntOf(Strip(Get(t.text)))])
            ELSE MarkingTexts(d, Tail(ts), st)

IsMarkingTag(tag) == Contains(Lower(strip_ns(tag)), tag_initialmarking)

\* for c in elem: ...   (the place branch)
RECURSIVE PlaceChildren(_, _, _)
PlaceChildren(d, cs, st) ==
    IF cs = <<>> \/ ~IsNone(st.exc) THEN st
    ELSE LET c == Head(cs)
             s1 == IF strip_ns(d[c].tag) = tag_name
                   THEN NameTexts(d, IterIdx(d, c), st) ELSE st
             s2 == IF IsNone(s1.exc) /\ IsMarkingTag(d[c].tag)
                   THEN MarkingTexts(d, IterIdx(d, c), s1) ELSE s1
         IN PlaceChildren(d, Tail(cs), s2)

\* the place branch looking for name and marking among all descendants
place_branch_deep(d, i, n) ==
    IF ~HasAttr(d[i], "id") THEN Raised(KeyError("id"), n)
    ELSE LET st == PlaceChildren(d, Tail(IterIdx(d, i)), Locals)
         IN IF ~IsNone(st.exc) THEN Raised(Get(st.exc), n)
            ELSE add_place(n, Place(Attr(d[i], "id"), st.name, st.init))

\* if tag == "place": ...
place_branch(d, i, n) ==
    IF ~HasAttr(d[i], "id") THEN Raised(KeyError("id"), n)
    ELSE LET st == PlaceChildren(d, ChildIdx(d, i), Locals)
         IN IF ~IsNone(st.exc) THEN Raised(Get(st.exc), n)
            ELSE add_place(n, Place(Attr(d[i], "id"), st.name, st.init))

\* elif tag == "transition": ...
transition_branch(d, i, n) ==
    IF ~HasAttr(d[i], "id") THEN Raised(KeyError("id"), n)
    ELSE LET st == NameTexts(d, IterIdx(d, i), Locals)
         IN IF ~IsNone(st.exc) THEN Raised(Get(st.exc), n)
            ELSE add_transition(n, Transition(Attr(d[i], "id"), st.name))

\* elif tag == "arc": ...
arc_branch(d, i, n) ==
    IF ~HasAttr(d[i], "id") THEN Raised(KeyError("id"), n)
    ELSE IF ~HasAttr(d[i], "source") THEN Raised(KeyError("source"), n)
    ELSE IF ~HasAttr(d[i], "target") THEN Raised(KeyError("target"), n)
    ELSE add_arc(n, Arc(Attr(d[i], "id"), Attr(d[i], "source"), Attr(d[i], "target")))

\* ------------------------------------------------------------- summary
\* Places with initial marking = 1, as printed: (id, name)
RECURSIVE MarkedPlaces(_, _)
MarkedPlaces(places, k) ==
    IF k > Len(places) THEN <<>>
    ELSE (IF places[k].initial_marking = 1
          THEN <<[id |-> places[k].id, name |-> places[k].name]>> ELSE <<>>)
         \o MarkedPlaces(places, k + 1)

\* What summary prints, given the result of its check_consistency call
summary(n, found) ==
    [places |-> Len(n.places), transitions |-> Len(n.transitions), arcs |-> Len(n.arcs),
     marked |-> MarkedPlaces(n.places, 1),
     errors |-> found.errors, warnings |-> found.warnings,
     clean |-> found.errors = <<>> /\ found.warnings = <<>>]

\* an exception swallowed inside parse_pnml, the net built so far returned
Uncaught_swallowed(e, n) == [pc |-> "summary", exc |-> Some(e), pn |-> Some(n), exit_code |-> None]

\* An exception raised inside parse_pnml is caught nowhere: it leaves parse_pnml
\* and __main__, pn is never bound and the interpreter exits with status 1
Uncaught(e, n) == [pc |-> "exit", exc |-> Some(e), pn |-> None, exit_code |-> Some(1)]

\* ------------------------------------------------------------- documents
El(tag, attrib, text, depth) == [tag |-> tag, attrib |-> attrib, text |-> text, depth |-> depth]

\* a fragment placed k levels deeper
Shift(frag, k) == [j \in 1..Len(frag) |-> [frag[j] EXCEPT !.depth = @ + k]]

RECURSIVE Flatten(_)
Flatten(frags) == IF frags = <<>> THEN <<>> ELSE Head(frags) \o Flatten(Tail(frags))

\* the xmlns of the document: absent, or a default namespace on every element
Namespaces == {<<>>, <<123, 117, 125>>}                       \* "", "{u}"

t_pnml == <<112, 110, 109, 108>>                          \* "pnml"
t_page == <<112, 97, 103, 101>>                            \* "page"
t_graphics == <<103, 114, 97, 112, 104, 105, 99, 115>>    \* "graphics"
t_initialMarking ==                                        \* "initialMarking"
    <<105, 110, 105, 116, 105, 97, 108, 77, 97, 114, 107, 105, 110, 103>>
t_hlINITIALMARKING ==                                      \* "hlINITIALMARKING"
    <<104, 108, 73, 78, 73, 84, 73, 65, 76, 77, 65, 82, 75, 73, 78, 71>>

Leaf(ns, tag, attrib, text) == <<El(ns \o tag, attrib, text, 0)>>
Node(ns, tag, attrib, kids) == Leaf(ns, tag, attrib, None) \o Shift(Flatten(kids), 1)
TextEl(ns, text) == Leaf(ns, tag_text, {}, text)

\* <initialMarking><text>m</text></initialMarking>
MarkingEl(ns, m) == Node(ns, t_initialMarking, {}, <<TextEl(ns, Some(m))>>)

\* Declarations of the structural family: places, transitions and arcs over
\* the identifiers a, b (declared) and c (never declared), at two depths;
\* the marking texts are "1", "-2", "3" and "x"
StructDecls(ns) ==
    {Node(ns, tag_place, {<<"id", "a">>}, <<MarkingEl(ns, <<49>>)>>),
     Node(ns, tag_place, {<<"id", "a">>}, <<MarkingEl(ns, <<45, 50>>)>>),
     Node(ns, tag_place, {<<"id", "b">>}, <<MarkingEl(ns, <<51>>)>>),
     Node(ns, tag_place, {<<"id", "b">>}, <<MarkingEl(ns, <<120>>)>>),
     Node(ns, tag_place, {}, <<>>),
     Node(ns, t_page, {<<"id", "g">>}, <<Node(ns, tag_place, {<<"id", "b">>}, <<>>)>>),
     Node(ns, tag_transition, {<<"id", "a">>}, <<>>),
     Node(ns, tag_transition, {<<"id", "b">>}, <<>>),
     Node(ns, tag_transition, {}, <<>>),
     Node(ns, tag_arc, {<<"id", "x">>, <<"source", "a">>, <<"target", "b">>}, <<>>),
     Node(ns, tag_arc, {<<"id", "x">>, <<"source", "c">>, <<"target", "b">>}, <<>>),
     Node(ns, tag_arc, {<<"id", "x">>, <<"source", "c">>, <<"target", "c">>}, <<>>),
     Node(ns, tag_arc, {<<"id", "x">>, <<"source", "a">>}, <<>>)}

\* a document of the structural family: at most MaxDecls declarations under the root
StructDoc(ns, decls) == Node(ns, t_pnml, {}, decls)

\* Children of a place in the label family: names and markings at several
\* depths, with and without text content. The texts are, in order: "A",
\* NBSP "B" LF, none, "D", "E", "F", EM-SPACE ARABIC-DIGIT-THREE SPACE, "-2",
\* "x", "1_0", none
PlaceKids(ns) ==
    {Node(ns, tag_name, {}, <<TextEl(ns, Some(<<65>>))>>),
     Node(ns, tag_name, {}, <<TextEl(ns, Some(<<160, 66, 10>>))>>),
     Node(ns, tag_name, {}, <<TextEl(ns, None)>>),
     Node(ns, t_graphics, {}, <<Node(ns, tag_name, {}, <<TextEl(ns, Some(<<68>>))>>)>>),
     Node(ns, tag_name, {}, <<Node(ns, t_graphics, {}, <<TextEl(ns, Some(<<69>>))>>)>>),
     TextEl(ns, Some(<<70>>)),
     MarkingEl(ns, <<8195, 1635, 32>>),
     MarkingEl(ns, <<45, 50>>),
     MarkingEl(ns, <<120>>),
     Node(ns, t_hlINITIALMARKING, {}, <<Node(ns, t_graphics, {}, <<TextEl(ns, Some(<<49, 95, 48>>))>>)>>),
     Node(ns, t_initialMarking, {}, <<TextEl(ns, None)>>)}

\* Markings at the digit limit of int(): as many zeros as the limit allows,
\* and one more
Zeros(n) == [k \in 1..n |-> 48]
LimitKids(ns) ==
    {MarkingEl(ns, Zeros(MaxStrDigits)), MarkingEl(ns, Zeros(MaxStrDigits + 1))}

\* Children of a transition: none, a name without content, and the texts
\* "U" EM-SPACE and "V" at two depths
TransitionKids(ns) ==
    {<<>>,
     <<Node(ns, tag_name, {}, <<TextEl(ns, None)>>)>>,
     <<Node(ns, t_graphics, {}, <<TextEl(ns, Some(<<85, 8195>>))>>), TextEl(ns, Some(<<86>>))>>}

\* a document of the label family: one place with the given children, one
\* transition with the given children, and an arc between them
LabelDoc(ns, kids, tk) ==
    Node(ns, t_pnml, {},
        <<Node(ns, tag_place, {<<"id", "a">>}, kids),
          Node(ns, tag_transition, {<<"id", "t">>}, tk),
          Node(ns, tag_arc, {<<"id", "x">>, <<"source", "a">>, <<"target", "t">>}, <<>>)>>)

NoDoc == <<>>

\* ------------------------------------------------------------- state
VARIABLES
    argv,       \* TRUE iff a file argument was given (len(sys.argv) >= 2)
    file,       \* what the argument names: "xml" (well-formed), "malformed", "missing"
    doc,        \* the element tree of a well-formed file, in document order
    pc,         \* "main", "parse", "summary", "returned", "exit"
    idx,        \* position of root.iter() inside parse_pnml
    net,        \* parse_pnml's local `net`
    pn,         \* __main__'s `pn`: None until parse_pnml returns
    exc,        \* the exception that ended the program, or None
    usage,      \* TRUE iff the usage line was printed
    report,     \* what summary printed, or None
    runs,       \* results of the check_consistency calls so far, oldest first
    exit_code   \* the process exit status, or None while running

vars == <<argv, file, doc, pc, idx, net, pn, exc, usage, report, runs, exit_code>>

\* the program starts in __main__ with nothing parsed
Start ==
    /\ pc = "main"
    /\ idx = 0
    /\ net = PetriNet
    /\ pn = None
    /\ exc = None
    /\ usage = FALSE
    /\ report = None
    /\ runs = <<>>
    /\ exit_code = None

Init ==
    /\ \/ argv = FALSE /\ file = "missing" /\ doc = NoDoc
       \/ argv = TRUE /\ file \in {"malformed", "missing"} /\ doc = NoDoc
       \/ /\ argv = TRUE /\ file = "xml"
          /\ \E ns \in Namespaces : \E k \in 0..MaxDecls :
                \E decls \in [1..k -> StructDecls(ns)] : doc = StructDoc(ns, decls)
    /\ Start

InitLabels ==
    /\ \/ argv = FALSE /\ file = "missing" /\ doc = NoDoc
       \/ argv = TRUE /\ file \in {"malformed", "missing"} /\ doc = NoDoc
       \/ /\ argv = TRUE /\ file = "xml"
          /\ \E ns \in Namespaces : \E k \in 0..MaxKids :
                \E kids \in [1..k -> PlaceKids(ns)] : \E tk \in TransitionKids(ns) :
                    doc = LabelDoc(ns, kids, tk)
       \/ /\ argv = TRUE /\ file = "xml"
          /\ \E ns \in Namespaces : \E kid \in LimitKids(ns) :
                doc = LabelDoc(ns, <<kid>>, <<>>)
    /\ Start

\* if len(sys.argv) < 2: print usage; sys.exit(1)
Usage ==
    /\ pc = "main" /\ ~argv
    /\ usage' = TRUE
    /\ exit_code' = Some(1)
    /\ pc' = "exit"
    /\ UNCHANGED <<argv, file, doc, idx, net, pn, exc, report, runs>>

\* parse_pnml up to the loop: ET.parse reads the file or raises, root is
\* taken, net = PetriNet()
StartParse ==
    /\ pc = "main" /\ argv
    /\ IF file = "xml"
       THEN /\ pc' = "parse"
            /\ idx' = 1
            /\ net' = PetriNet
            /\ UNCHANGED <<pn, exc, exit_code>>
       ELSE LET u == Uncaught(IF file = "malformed" THEN ParseError ELSE FileNotFoundError, net)
            IN /\ pc' = u.pc
               /\ exc' = u.exc
               /\ pn' = u.pn
               /\ exit_code' = u.exit_code
               /\ UNCHANGED <<idx, net>>
    /\ UNCHANGED <<argv, file, doc, usage, report, runs>>

\* one iteration of `for elem in root.iter()` ending in outcome r
Iteration(r) ==
    IF IsNone(r.exc)
    THEN /\ net' = r.net
         /\ idx' = idx + 1
         /\ UNCHANGED <<pc, pn, exc, exit_code>>
    ELSE LET u == Uncaught(Get(r.exc), r.net)
         IN /\ pc' = u.pc
            /\ exc' = u.exc
            /\ pn' = u.pn
            /\ exit_code' = u.exit_code
            /\ UNCHANGED <<net, idx>>

InLoop == pc = "parse" /\ idx <= Len(doc)
Tag == strip_ns(doc[idx].tag)

ParsePlace ==
    /\ InLoop /\ Tag = tag_place
    /\ Iteration(place_branch(doc, idx, net))
    /\ UNCHANGED <<argv, file, doc, usage, report, runs>>

ParseTransition ==
    /\ InLoop /\ Tag # tag_place /\ Tag = tag_transition
    /\ Iteration(transition_branch(doc, idx, net))
    /\ UNCHANGED <<argv, file, doc, usage, report, runs>>

ParseArc ==
    /\ InLoop /\ Tag \notin {tag_place, tag_transition} /\ Tag = tag_arc
    /\ Iteration(arc_branch(doc, idx, net))
    /\ UNCHANGED <<argv, file, doc, usage, report, runs>>

\* any other element: no branch is taken
SkipElement ==
    /\ InLoop /\ Tag \notin {tag_place, tag_transition, tag_arc}
    /\ idx' = idx + 1
    /\ UNCHANGED <<argv, file, doc, pc, net, pn, exc, usage, report, runs, exit_code>>

\* return net; pn = parse_pnml(...)
ParseReturn ==
    /\ pc = "parse" /\ idx > Len(doc)
    /\ pn' = Some(net)
    /\ pc' = "summary"
    /\ UNCHANGED <<argv, file, doc, idx, net, exc, usage, report, runs, exit_code>>

\* summary(pn), then the interpreter falls off the end of the script
Summary ==
    /\ pc = "summary"
    /\ LET found == check_consistency(Get(pn))
       IN /\ report' = Some(summary(Get(pn), found))
          /\ runs' = Append(runs, [errors |-> found.errors, warnings |-> found.warnings])
          /\ pn' = Some(found.self)
    /\ pc' = "returned"
    /\ exit_code' = Some(0)
    /\ UNCHANGED <<argv, file, doc, idx, net, exc, usage>>

Next ==
    \/ Usage
    \/ StartParse
    \/ ParsePlace
    \/ ParseTransition
    \/ ParseArc
    \/ SkipElement
    \/ ParseReturn
    \/ Summary

Spec == Init /\ [][Next]_vars
SpecLabels == InitLabels /\ [][Next]_vars

\* ------------------------------------------------------------- reading the document
\* Statements about the document itself, independent of the parser's loop.
IsEl(d, i, tag) == strip_ns(d[i].tag) = tag
Within(d, i, j) == i <= j /\ j <= Len(d) /\ \A k \in (i + 1)..j : d[k].depth > d[i].depth
Below(d, i, j) == i < j /\ Within(d, i, j)
ChildOf(d, i, c) == Below(d, i, c) /\ d[c].depth = d[i].depth + 1

PlaceEls(d) == {i \in 1..Len(d) : IsEl(d, i, tag_place)}
TransitionEls(d) == {i \in 1..Len(d) : IsEl(d, i, tag_transition)}
ArcEls(d) == {i \in 1..Len(d) : IsEl(d, i, tag_arc)}

\* text elements a place takes its name from: below a "name" that is `top` of the place
NameTextsBelowChild(d, i) ==
    {t \in 1..Len(d) : IsEl(d, t, tag_text) /\
        \E c \in 1..Len(d) : ChildOf(d, i, c) /\ IsEl(d, c, tag_name) /\ Below(d, c, t)}
NameTextsBelowAny(d, i) ==
    {t \in 1..Len(d) : IsEl(d, t, tag_text) /\
        \E c \in 1..Len(d) : Below(d, i, c) /\ IsEl(d, c, tag_name) /\ Below(d, c, t)}
MarkingTextsOf(d, i) ==
    {t \in 1..Len(d) : IsEl(d, t, tag_text) /\
        \E c \in 1..Len(d) : ChildOf(d, i, c) /\ IsMarkingTag(d[c].tag) /\ Below(d, c, t)}
TextsBelow(d, i) == {t \in 1..Len(d) : IsEl(d, t, tag_text) /\ Below(d, i, t)}

Max(S) == CHOOSE m \in S : \A x \in S : x <= m
LastTrimmed(d, T) == IF T = {} THEN None ELSE Some(Strip(Get(d[Max(T)].text)))

\* the fatal construction errors the documentation lists
MissingAttribute(d) ==
    \/ \E i \in PlaceEls(d) \cup TransitionEls(d) : ~HasAttr(d[i], "id")
    \/ \E i \in ArcEls(d) : \E k \in {"id", "source", "target"} : ~HasAttr(d[i], k)
SameId(d, i, j) == HasAttr(d[i], "id") /\ HasAttr(d[j], "id") /\ Attr(d[i], "id") = Attr(d[j], "id")
RepeatedPlaceId(d) == \E i, j \in PlaceEls(d) : i # j /\ SameId(d, i, j)
RepeatedTransitionId(d) == \E i, j \in TransitionEls(d) : i # j /\ SameId(d, i, j)
\* a marking text that int() rejects once trimmed: no content, not a decimal
\* literal, or more digits than MaxStrDigits
NonIntegerMarking(d) ==
    \E i \in PlaceEls(d) : \E t \in MarkingTextsOf(d, i) :
        IsNone(d[t].text) \/ ~IsIntLiteral(Strip(Get(d[t].text)))
ListedDefect(d) ==
    MissingAttribute(d) \/ RepeatedPlaceId(d) \/ RepeatedTransitionId(d) \/ NonIntegerMarking(d)
\* a name text without content
EmptyNameText(d) ==
    \/ \E i \in PlaceEls(d) : \E t \in NameTextsBelowChild(d, i) : IsNone(d[t].text)
    \/ \E i \in TransitionEls(d) : \E t \in TextsBelow(d, i) : IsNone(d[t].text)

Parsed == pc \in {"summary", "returned"}
Failed == pc = "exit" /\ ~IsNone(exc)
\* elements whose iteration completed
Done == IF pc = "main" THEN {} ELSE 1..(idx - 1)
Entry(dict, id) == CHOOSE e \in {dict[k] : k \in 1..Len(dict)} : e.id = id
UniqueKeys(dict) == \A j, k \in 1..Len(dict) : j # k => dict[j].id # dict[k].id

\* ------------------------------------------------------------- claims
\* C1: a place whose id is already a key of the place mapping fails the parse
\* with the duplicate-place error, a transition whose id is already a key of
\* the transition mapping fails it with the duplicate-transition error, a
\* place and a transition may share an id, an arc element with its attributes
\* never fails, and each mapping holds at most one entry per identifier.
Thm_C1_DuplicateIds ==
    /\ UniqueKeys(net.places) /\ UniqueKeys(net.transitions)
    /\ \A i, j \in Done : i # j =>
          /\ ~(i \in PlaceEls(doc) /\ j \in PlaceEls(doc) /\ SameId(doc, i, j))
          /\ ~(i \in TransitionEls(doc) /\ j \in TransitionEls(doc) /\ SameId(doc, i, j))
    /\ \A i \in Done : i \in PlaceEls(doc) => Attr(doc[i], "id") \in Keys(net.places)
    /\ \A i \in Done : i \in TransitionEls(doc) => Attr(doc[i], "id") \in Keys(net.transitions)
    /\ Failed /\ Len(Get(exc)) = 3 =>
          \/ /\ Get(exc) = DuplicatePlace(Attr(doc[idx], "id"))
             /\ idx \in PlaceEls(doc)
             /\ \E j \in Done : j \in PlaceEls(doc) /\ SameId(doc, idx, j)
          \/ /\ Get(exc) = DuplicateTransition(Attr(doc[idx], "id"))
             /\ idx \in TransitionEls(doc)
             /\ \E j \in Done : j \in TransitionEls(doc) /\ SameId(doc, idx, j)
    /\ Failed /\ idx \in ArcEls(doc) =>
          \E k \in {"id", "source", "target"} : ~HasAttr(doc[idx], k) /\ Get(exc) = KeyError(k)

\* a second place "a" is refused while place "a" and transition "a" are both held
Wit_C1_DuplicateIds ==
    /\ Failed /\ Get(exc) = DuplicatePlace("a")
    /\ "a" \in Keys(net.places) /\ "a" \in Keys(net.transitions)

\* the element at position i carries a listed defect: a required attribute
\* is missing, an earlier element of its kind has its id, or one of its
\* marking texts is rejected by int()
ElementDefect(d, i) ==
    \/ i \in PlaceEls(d) \cup TransitionEls(d) /\ ~HasAttr(d[i], "id")
    \/ i \in ArcEls(d) /\ \E k \in {"id", "source", "target"} : ~HasAttr(d[i], k)
    \/ i \in PlaceEls(d) /\ \E j \in PlaceEls(d) : j < i /\ SameId(d, j, i)
    \/ i \in TransitionEls(d) /\ \E j \in TransitionEls(d) : j < i /\ SameId(d, j, i)
    \/ i \in PlaceEls(d) /\ \E t \in MarkingTextsOf(d, i) :
          IsNone(d[t].text) \/ ~IsIntLiteral(Strip(Get(d[t].text)))

\* C2: a fatal construction error ends the program at the offending element:
\* no model reaches the caller, summary and check_consistency never run and
\* nothing follows; the parse stops at the first element that carries a listed
\* defect (missing attribute, repeated place id, repeated transition id,
\* marking text that is no integer), with the error of that defect; a document
\* with a listed defect is never parsed; after a successful parse the findings
\* are reported and the program ends normally.
Thm_C2_FatalAborts ==
    /\ ~IsNone(exc) =>
          /\ pc = "exit" /\ exit_code = Some(1)
          /\ IsNone(pn) /\ IsNone(report) /\ runs = <<>>
          /\ file = "xml" => idx \in PlaceEls(doc) \cup TransitionEls(doc) \cup ArcEls(doc)
          /\ file # "xml" => idx = 0 /\ net = PetriNet
          /\ ~ENABLED Next
    /\ \A i \in Done : ~ElementDefect(doc, i)
    /\ Failed /\ file = "xml" =>
          /\ Get(exc) # AttributeError => ElementDefect(doc, idx)
          /\ Get(exc) \in {IntValueError, IntLimitError} =>
                /\ idx \in PlaceEls(doc)
                /\ \E t \in MarkingTextsOf(doc, idx) :
                      ~IsNone(doc[t].text) /\ ~IsIntLiteral(Strip(Get(doc[t].text)))
          /\ \A k \in {"id", "source", "target"} :
                Get(exc) = KeyError(k) => ~HasAttr(doc[idx], k)
          /\ Len(Get(exc)) = 3 =>
                \E j \in Done : j \in PlaceEls(doc) \cup TransitionEls(doc) /\ SameId(doc, j, idx)
    /\ Parsed => file = "xml" /\ ~ListedDefect(doc) /\ IsNone(exc) /\ ~IsNone(pn)
    /\ pc = "returned" =>
          /\ exit_code = Some(0) /\ ~IsNone(report)
          /\ Get(report).errors = runs[1].errors
          /\ Get(report).warnings = runs[1].warnings

\* a marking text "x" ends the parse at its place, with a place and an arc
\* already in the net being built
Wit_C2_FatalAborts ==
    /\ Failed /\ file = "xml" /\ Get(exc) = IntValueError
    /\ idx \in PlaceEls(doc) /\ idx < Len(doc)
    /\ Len(net.places) > 0 /\ Len(net.arcs) > 0
    /\ exit_code = Some(1) /\ IsNone(pn) /\ IsNone(report)

\* C3: after a successful parse the place mapping has as many entries as the
\* document has place elements at any depth, likewise the transitions, and
\* the arc sequence is the document's arc elements in document order, repeats kept.
IsArcElement(e) == strip_ns(e.tag) = tag_arc
ArcOfElement(e) == Arc(Attr(e, "id"), Attr(e, "source"), Attr(e, "target"))
Thm_C3_ExactCounts ==
    ~IsNone(pn) =>
        /\ Len(Get(pn).places) = Cardinality(PlaceEls(doc))
        /\ Len(Get(pn).transitions) = Cardinality(TransitionEls(doc))
        /\ LET as == SelectSeq(doc, IsArcElement)
           IN Get(pn).arcs = [k \in 1..Len(as) |-> ArcOfElement(as[k])]

\* two equal arcs are both kept and a place nested in a page is counted
Wit_C3_ExactCounts ==
    /\ ~IsNone(pn)
    /\ Len(Get(pn).arcs) = 2 /\ Get(pn).arcs[1] = Get(pn).arcs[2]
    /\ \E i \in PlaceEls(doc) : doc[i].depth = 2

\* C4: the errors are, arc by arc in order and source before target, one error
\* naming the arc and the endpoint for each endpoint that is a key of neither
\* mapping, and nothing else.
ExpectedErrors(n) ==
    LET ids == {n.places[k].id : k \in 1..Len(n.places)}
                 \cup {n.transitions[k].id : k \in 1..Len(n.transitions)}
        cand == [k \in 1..(2 * Len(n.arcs)) |->
                    IF k % 2 = 1
                    THEN [kind |-> "unknown source", arc |-> n.arcs[(k + 1) \div 2].id,
                          ref |-> n.arcs[(k + 1) \div 2].source]
                    ELSE [kind |-> "unknown target", arc |-> n.arcs[k \div 2].id,
                          ref |-> n.arcs[k \div 2].target]]
        Dangling(e) == e.ref \notin ids
    IN SelectSeq(cand, Dangling)
Thm_C4_ArcErrors == \A r \in 1..Len(runs) : runs[r].errors = ExpectedErrors(Get(pn))

\* with only transition b declared, the arc c -> b yields one error and the
\* arc c -> c yields two, source before target
Wit_C4_ArcErrors ==
    /\ Len(runs) > 0
    /\ Len(Get(pn).places) = 0 /\ Keys(Get(pn).transitions) = {"b"}
    /\ Get(pn).arcs = <<Arc("x", "c", "b"), Arc("x", "c", "c")>>
    /\ runs[1].errors = <<[kind |-> "unknown source", arc |-> "x", ref |-> "c"],
                          [kind |-> "unknown source", arc |-> "x", ref |-> "c"],
                          [kind |-> "unknown target", arc |-> "x", ref |-> "c"]>>

\* C5: the warnings are, place by place in mapping order, one warning naming
\* the place and its marking for each place whose marking is neither 0 nor 1;
\* they are a function of the place mapping alone.
ExpectedWarnings(places) ==
    LET Odd(p) == p.initial_marking # 0 /\ p.initial_marking # 1
        sel == SelectSeq(places, Odd)
    IN [k \in 1..Len(sel) |-> [place |-> sel[k].id, marking |-> sel[k].initial_marking]]
Thm_C5_MarkingWarnings ==
    \A r \in 1..Len(runs) : runs[r].warnings = ExpectedWarnings(Get(pn).places)

\* place a marked 1, place b marked 3, arc a -> b: no error, one warning for b,
\* and only a in the marking = 1 listing
Wit_C5_MarkingWarnings ==
    /\ pc = "returned"
    /\ Keys(Get(pn).places) = {"a", "b"} /\ Len(Get(pn).arcs) = 1
    /\ runs[1].errors = <<>>
    /\ runs[1].warnings = <<[place |-> "b", marking |-> 3]>>
    /\ Get(report).marked = <<[id |-> "a", name |-> None]>>

\* C9: the order of declarations does not matter: a parse fails only for a
\* defect of the document as a whole, the parsed mappings and arcs hold exactly
\* what is declared anywhere in the document, and an arc endpoint is reported
\* iff its identifier is declared nowhere in the document.
DeclaredIds(d) == {Attr(d[i], "id") : i \in {j \in PlaceEls(d) \cup TransitionEls(d) : HasAttr(d[j], "id")}}
Thm_C9_OrderIndependent ==
    /\ Failed /\ file = "xml" => ListedDefect(doc) \/ EmptyNameText(doc)
    /\ ~IsNone(pn) =>
          /\ Keys(Get(pn).places) = {Attr(doc[i], "id") : i \in PlaceEls(doc)}
          /\ Keys(Get(pn).transitions) = {Attr(doc[i], "id") : i \in TransitionEls(doc)}
          /\ \A i \in ArcEls(doc) :
                Cardinality({k \in 1..Len(Get(pn).arcs) : Get(pn).arcs[k] = ArcOfElement(doc[i])})
                  = Cardinality({j \in ArcEls(doc) : ArcOfElement(doc[j]) = ArcOfElement(doc[i])})
    /\ \A r \in 1..Len(runs) :
          /\ \A k \in 1..Len(runs[r].errors) : runs[r].errors[k].ref \notin DeclaredIds(doc)
          /\ \A k \in 1..Len(Get(pn).arcs) :
                /\ Get(pn).arcs[k].source \notin DeclaredIds(doc) =>
                      \E e \in 1..Len(runs[r].errors) :
                          runs[r].errors[e] = UnknownSource(Get(pn).arcs[k])
                /\ Get(pn).arcs[k].target \notin DeclaredIds(doc) =>
                      \E e \in 1..Len(runs[r].errors) :
                          runs[r].errors[e] = UnknownTarget(Get(pn).arcs[k])

\* the arc a -> b comes first, its place a and transition b are declared after it
Wit_C9_OrderIndependent ==
    /\ pc = "returned"
    /\ PlaceEls(doc) # {} /\ TransitionEls(doc) # {}
    /\ \A i \in ArcEls(doc) : \A j \in PlaceEls(doc) \cup TransitionEls(doc) : i < j
    /\ Get(pn).arcs = <<Arc("x", "a", "b")>>
    /\ runs[1].errors = <<>>

\* C7 (as claimed): a place takes its name from a "name" element found at any
\* depth below it: whenever such an element has a "text" below it, the place's
\* name is the trimmed content of one of those texts, and otherwise it is unset.
Orig_C7_NameAtAnyDepth ==
    \A i \in Done : i \in PlaceEls(doc) =>
        LET T == NameTextsBelowAny(doc, i)
            p == Entry(net.places, Attr(doc[i], "id"))
        IN IF T = {} THEN IsNone(p.name)
           ELSE p.name \in {Some(Strip(Get(doc[t].text))) : t \in T}

\* C7 (amended): a place takes its name only from "name" elements that are
\* direct children of the place: its name is the trimmed content of the last
\* "text" element, in document order, below such a child at any depth, and is
\* unset when there is none, a deeper "name" being ignored; the place branch
\* fails on a name only when one of those texts has no content.
Thm_C7_NameUnderChild ==
    /\ \A i \in Done : i \in PlaceEls(doc) =>
          Entry(net.places, Attr(doc[i], "id")).name
             = LastTrimmed(doc, NameTextsBelowChild(doc, i))
    /\ Failed /\ idx \in PlaceEls(doc) /\ Get(exc) = AttributeError =>
          \E t \in NameTextsBelowChild(doc, idx) \cup MarkingTextsOf(doc, idx) : IsNone(doc[t].text)
    /\ \A i \in PlaceEls(doc) :
          (\E t \in NameTextsBelowChild(doc, i) : IsNone(doc[t].text)) => i \notin Done

\* a place whose only "name" sits inside a graphics child is added without a name
Wit_C7_NameUnderChild ==
    \E i \in Done :
        /\ i \in PlaceEls(doc)
        /\ NameTextsBelowChild(doc, i) = {}
        /\ NameTextsBelowAny(doc, i) # {}
        /\ IsNone(Entry(net.places, Attr(doc[i], "id")).name)

\* C8 (as claimed): in a returned model every place's initial marking is a
\* non-negative integer, 0 when the place has no initialmarking child.
Orig_C8_MarkingNonNegative ==
    ~IsNone(pn) =>
        \A i \in PlaceEls(doc) :
            LET p == Entry(Get(pn).places, Attr(doc[i], "id"))
            IN /\ p.initial_marking >= 0
               /\ (\A c \in 1..Len(doc) : ChildOf(doc, i, c) => ~IsMarkingTag(doc[c].tag)) =>
                     p.initial_marking = 0

\* C10 (as claimed): a well-formed document free of the listed defects (missing required
\* attribute, repeated place id, repeated transition id, non-integer marking
\* text) is always parsed: the program never ends with an exception.
Orig_C10_OnlyListedFatal == file = "xml" /\ ~ListedDefect(doc) => IsNone(exc)

====
